---------------------------- MODULE Spec2Model ----------------------------
(***************************************************************************)
(* Voice agent: the per-connection loop of app.py (websocket_endpoint)     *)
(* with the collaborators it calls: base64 decoding of the inbound frame,  *)
(* STTProcessor.transcribe_audio, RAGProcessor.query / setup_qa_chain,     *)
(* TTSProcessor.synthesize_speech, initialize_processors and the           *)
(* /restart-ollama and /upload endpoints that mutate the shared globals.   *)
(*                                                                         *)
(* The server is one asyncio event loop (uvicorn.run, a single worker):    *)
(* the code between two awaits of a coroutine runs without interleaving    *)
(* and a synchronous call made from a coroutine holds the loop until it    *)
(* returns.  `running` is the coroutine that holds the loop.               *)
(*                                                                         *)
(* Beside the session specifications Spec and SpecConcurrent, three        *)
(* specifications call parts of the program directly and record each call  *)
(* in `probe`: SpecEngine (RAGProcessor with the upload endpoint),         *)
(* SpecUnits (language choice, synthesize_speech, transcribe_audio) and    *)
(* SpecLifecycle (is_ollama_running and start_ollama on the machine        *)
(* `host`).                                                                *)
(***************************************************************************)
EXTENDS Integers, Sequences, FiniteSets, TLC

(***************************************************************************)
(* Bounds of the model.                                                    *)
(***************************************************************************)
MaxFrames == 2      \* messages one client sends on its connection in Spec
MaxConcurrentFrames == 1    \* the same in SpecConcurrent

Sessions == {"s1", "s2"}
NoTask == "none"

(***************************************************************************)
(* Text.  A text is a sequence of characters, so that the substring and    *)
(* whitespace tests of the code are computed and not assumed.              *)
(***************************************************************************)
SttPlaceholder ==
  <<"M","a","a","f",","," ","s","a","y","a"," ","t","i","d","a","k"," ","d",
    "a","p","a","t"," ","m","e","m","a","h","a","m","i"," ","a","u","d","i",
    "o"," ","y","a","n","g"," ","d","i","k","i","r","i","m","."," ","S","i",
    "l","a","k","a","n"," ","c","o","b","a"," ","l","a","g","i",".">>

GeneralApology ==
  <<"M","a","a","f",","," ","s","a","y","a"," ","m","e","n","g","a","l","a",
    "m","i"," ","g","a","n","g","g","u","a","n"," ","t","e","k","n","i","s",
    "."," ","S","i","l","a","k","a","n"," ","c","o","b","a"," ","l","a","g",
    "i"," ","d","a","l","a","m"," ","b","e","b","e","r","a","p","a"," ","s",
    "a","a","t",".">>

FallbackApology ==
  <<"M","a","a","f",","," ","t","e","r","j","a","d","i"," ","k","e","s","a",
    "l","a","h","a","n"," ","d","a","l","a","m"," ","m","e","m","p","r","o",
    "s","e","s"," ","p","e","r","t","a","n","y","a","a","n"," ","A","n","d",
    "a","."," ","S","i","l","a","k","a","n"," ","c","o","b","a"," ","l","a",
    "g","i",".">>

UpperCase ==
  <<"A","B","C","D","E","F","G","H","I","J","K","L","M",
    "N","O","P","Q","R","S","T","U","V","W","X","Y","Z">>

LowerCase ==
  <<"a","b","c","d","e","f","g","h","i","j","k","l","m",
    "n","o","p","q","r","s","t","u","v","w","x","y","z">>

Digits ==
  {"0","1","2","3","4","5","6","7","8","9"}

Whitespace ==
  {" ", "\t", "\n", "\r"}

\* str.lower() on one character
LowerChar(c) ==
  IF \E i \in 1..26 : UpperCase[i] = c
  THEN LowerCase[CHOOSE i \in 1..26 : UpperCase[i] = c]
  ELSE c

\* the text is compared as it is, without lower()
LowerText_asis(t) ==
  t

\* str.lower()
LowerText(t) ==
  [i \in 1..Len(t) |-> LowerChar(t[i])]

\* `w in t` for two str values: w occurs in t as a substring
Contains(w, t) ==
  \E k \in 0..(Len(t) - Len(w)) : \A i \in 1..Len(w) : t[k + i] = w[i]

\* only `not text`: the strip() test is left out
IsBlank_empty(t) ==
  t = <<>>

\* `not text or text.strip() == ""`
IsBlank(t) ==
  \A i \in 1..Len(t) : t[i] \in Whitespace

\* the marker words of the language heuristic
EnglishMarkers ==
  { <<"e","n","g","l","i","s","h">>,
    <<"i","n","g","g","r","i","s">>,
    <<"h","e","l","l","o">>,
    <<"h","i">>,
    <<"h","o","w"," ","a","r","e"," ","y","o","u">> }

\* language = "id"; if any(word in transcript.lower() ...): language = "en"
select_language(transcript) ==
  IF \E w \in EnglishMarkers : Contains(w, LowerText(transcript))
  THEN "en" ELSE "id"

(***************************************************************************)
(* base64.b64decode(s) with validate=False, as binascii.a2b_base64 runs    *)
(* it: characters outside the alphabet are skipped, a pad ends the input   *)
(* once it completes a quad, and data characters left over in a quad       *)
(* raise binascii.Error.  The value computed is the number of bytes.       *)
(***************************************************************************)
B64Alphabet ==
  {UpperCase[i] : i \in 1..26} \cup {LowerCase[i] : i \in 1..26}
    \cup Digits \cup {"+", "/"}

B64Pad == "="

RECURSIVE a2b_base64(_, _, _, _, _)
a2b_base64(d, i, quad_pos, pads, n) ==
  IF i > Len(d)
  THEN [raised |-> quad_pos # 0, n |-> n]
  ELSE IF d[i] = B64Pad
  THEN IF quad_pos >= 2 /\ quad_pos + pads + 1 >= 4
       THEN [raised |-> FALSE, n |-> n]
       ELSE a2b_base64(d, i + 1, quad_pos,
                       IF quad_pos >= 2 THEN pads + 1 ELSE pads, n)
  ELSE IF d[i] \notin B64Alphabet
  THEN a2b_base64(d, i + 1, quad_pos, pads, n)
  ELSE a2b_base64(d, i + 1, (quad_pos + 1) % 4, 0,
                  IF quad_pos = 0 THEN n ELSE n + 1)

b64decode(s) ==
  a2b_base64(s, 1, 0, 0, 0)

\* RFC 4648 well-formedness of a payload: whole quads of alphabet
\* characters, the last quad ending in at most two pads
WellFormedB64(s) ==
  /\ Len(s) % 4 = 0
  /\ \E p \in 0..2 :
       /\ p <= Len(s)
       /\ \A i \in 1..Len(s) :
            IF i > Len(s) - p THEN s[i] = B64Pad ELSE s[i] \in B64Alphabet

(***************************************************************************)
(* STTProcessor.transcribe_audio.  audio_data is the decoded payload: its  *)
(* length and whether the bytes are an audio container pydub can read.     *)
(* whisper is the outcome of self.model.transcribe.                        *)
(***************************************************************************)
Ok(t) == [ok |-> TRUE, text |-> t]

Raise == [ok |-> FALSE, text |-> <<>>]

\* the except of lines 51-53 re-raises instead of returning the placeholder
transcribe_audio_raising(audio_data, whisper) ==
  IF audio_data.n = 0 \/ ~audio_data.container
  THEN [raised |-> TRUE, value |-> <<>>, calls |-> <<"from_file">>]
  ELSE IF ~whisper.ok
  THEN [raised |-> TRUE, value |-> <<>>, calls |-> <<"from_file", "whisper">>]
  ELSE [raised |-> FALSE, value |-> whisper.text,
        calls |-> <<"from_file", "whisper">>]

\* only the container failure is caught: a failure of the recognizer
\* leaves transcribe_audio as an exception
transcribe_audio_unguarded(audio_data, whisper) ==
  IF audio_data.n = 0 \/ ~audio_data.container
  THEN [raised |-> FALSE, value |-> SttPlaceholder,
        calls |-> <<"from_file", "except">>]
  ELSE IF ~whisper.ok
  THEN [raised |-> TRUE, value |-> <<>>, calls |-> <<"from_file", "whisper">>]
  ELSE [raised |-> FALSE, value |-> whisper.text,
        calls |-> <<"from_file", "whisper">>]

\* lines 26-53; "except" in calls is the handler of lines 51-53
transcribe_audio(audio_data, whisper) ==
  IF audio_data.n = 0 \/ ~audio_data.container
  THEN [raised |-> FALSE, value |-> SttPlaceholder,
        calls |-> <<"from_file", "except">>]
  ELSE IF ~whisper.ok
  THEN [raised |-> FALSE, value |-> SttPlaceholder,
        calls |-> <<"from_file", "whisper", "except">>]
  ELSE [raised |-> FALSE, value |-> whisper.text,
        calls |-> <<"from_file", "whisper">>]

(***************************************************************************)
(* RAGProcessor.query.  self is the engine (has_documents, qa_chain);      *)
(* index is the outcome of the retriever of the chain, llm the outcome of  *)
(* the Answer Generator on each of the three prompts.                      *)
(***************************************************************************)
TopK == 3

NoChain == [built |-> FALSE, docs |-> {}, k |-> 0]

\* the prompt of one call of the Answer Generator
Prompt(template, context, question) ==
  [template |-> template, context |-> context, question |-> question]

\* the retriever of the chain: the k documents of the index most similar
\* to the question; which ones those are is index.similar
Retrievals(chain) ==
  {r \in SUBSET chain.docs :
     Cardinality(r) = IF Cardinality(chain.docs) < chain.k
                      THEN Cardinality(chain.docs) ELSE chain.k}

\* self.qa_chain({"query": question}): the RetrievalQA chain retrieves,
\* stuffs the chunks in the prompt and calls the llm once
qa_chain_call(self, question, index, llm) ==
  IF ~self.qa_chain.built
  THEN [raised |-> TRUE, value |-> <<>>, calls |-> <<"qa_chain">>,
        prompts |-> <<>>]
  ELSE IF ~index.ok
  THEN [raised |-> TRUE, value |-> <<>>, calls |-> <<"qa_chain", "index">>,
        prompts |-> <<>>]
  ELSE [raised |-> ~llm.grounded.ok, value |-> llm.grounded.text,
        calls |-> <<"qa_chain", "index", "llm_grounded">>,
        prompts |-> <<Prompt("grounded", index.similar, question)>>]

\* lines 95-112: no documents, the general prompt
query_general(self, question, llm) ==
  IF llm.general.ok
  THEN [raised |-> FALSE, value |-> llm.general.text,
        calls |-> <<"llm_general">>,
        prompts |-> <<Prompt("general", {}, question)>>]
  ELSE [raised |-> FALSE, value |-> GeneralApology,
        calls |-> <<"llm_general">>,
        prompts |-> <<Prompt("general", {}, question)>>]

\* the inner except of lines 128-130 lets the exception out
query_fallback_reraise(question, grounded, llm) ==
  IF llm.fallback.ok
  THEN [raised |-> FALSE, value |-> llm.fallback.text,
        calls |-> Append(grounded.calls, "llm_fallback"),
        prompts |-> Append(grounded.prompts, Prompt("fallback", {}, question))]
  ELSE [raised |-> TRUE, value |-> <<>>,
        calls |-> Append(grounded.calls, "llm_fallback"),
        prompts |-> Append(grounded.prompts, Prompt("fallback", {}, question))]

\* the fallback prompt is sent a second time when the first send raises
query_fallback_retry(question, grounded, llm) ==
  IF llm.fallback.ok
  THEN [raised |-> FALSE, value |-> llm.fallback.text,
        calls |-> Append(grounded.calls, "llm_fallback"),
        prompts |-> Append(grounded.prompts, Prompt("fallback", {}, question))]
  ELSE [raised |-> FALSE, value |-> FallbackApology,
        calls |-> grounded.calls \o <<"llm_fallback", "llm_fallback">>,
        prompts |-> Append(grounded.prompts, Prompt("fallback", {}, question))]

\* lines 118-130: the except branch of the grounded path
query_fallback(question, grounded, llm) ==
  IF llm.fallback.ok
  THEN [raised |-> FALSE, value |-> llm.fallback.text,
        calls |-> Append(grounded.calls, "llm_fallback"),
        prompts |-> Append(grounded.prompts, Prompt("fallback", {}, question))]
  ELSE [raised |-> FALSE, value |-> FallbackApology,
        calls |-> Append(grounded.calls, "llm_fallback"),
        prompts |-> Append(grounded.prompts, Prompt("fallback", {}, question))]

query(self, question, index, llm) ==
  IF ~self.has_documents
  THEN query_general(self, question, llm)
  ELSE LET grounded == qa_chain_call(self, question, index, llm)
       IN IF ~grounded.raised THEN grounded
          ELSE query_fallback(question, grounded, llm)

(***************************************************************************)
(* TTSProcessor.synthesize_speech and _synthesize_with_gtts.  kokoro and   *)
(* gtts are whether each engine produces audio; the value is the number    *)
(* of bytes returned: both engines end in an export to WAV, which is never *)
(* empty, and bytes() is empty.  calls lists the engines in the order they *)
(* are entered, each followed by "except" when its handler (lines 58-61,   *)
(* 82-84) ran.                                                             *)
(***************************************************************************)
synthesize_with_gtts(text, language, gtts, calls) ==
  IF gtts
  THEN [raised |-> FALSE, value |-> 1, calls |-> Append(calls, "gtts")]
  ELSE [raised |-> FALSE, value |-> 0,
        calls |-> calls \o <<"gtts", "except">>]

\* synthesize_speech without the handler of lines 58-61
synthesize_speech_unguarded(self, text, language, kokoro, gtts) ==
  IF IsBlank(text)
  THEN [raised |-> FALSE, value |-> 0, calls |-> <<>>]
  ELSE IF self.use_kokoro /\ self.initialized
  THEN IF kokoro
       THEN [raised |-> FALSE, value |-> 1, calls |-> <<"kokoro">>]
       ELSE [raised |-> TRUE, value |-> 0, calls |-> <<"kokoro">>]
  ELSE synthesize_with_gtts(text, language, gtts, <<>>)

synthesize_speech(self, text, language, kokoro, gtts) ==
  IF IsBlank(text)
  THEN [raised |-> FALSE, value |-> 0, calls |-> <<>>]
  ELSE IF self.use_kokoro /\ self.initialized
  THEN IF kokoro
       THEN [raised |-> FALSE, value |-> 1, calls |-> <<"kokoro">>]
       ELSE synthesize_with_gtts(text, language, gtts, <<"kokoro", "except">>)
  ELSE synthesize_with_gtts(text, language, gtts, <<>>)

(***************************************************************************)
(* RAGProcessor.load_documents and setup_qa_chain.  store is the content   *)
(* of the data folder, unreadable the files whose loader raises, build     *)
(* whether FAISS.from_documents and RetrievalQA.from_chain_type succeed.   *)
(***************************************************************************)
Files ==
  { [name |-> "notes", ext |-> "txt"],
    [name |-> "memo", ext |-> "txt"],
    [name |-> "faq", ext |-> "txt"],
    [name |-> "scan", ext |-> "pdf"],
    [name |-> "logo", ext |-> "png"] }

\* the files the session specifications upload
SessionFiles ==
  { [name |-> "notes", ext |-> "txt"] }

\* one unreadable file stops the whole load
load_documents_abort(store, unreadable) ==
  IF store \cap unreadable # {} THEN {}
  ELSE {f \in store : f.ext \in {"pdf", "txt"}}

load_documents(store, unreadable) ==
  {f \in store : f.ext \in {"pdf", "txt"} /\ f \notin unreadable}

\* the branch of lines 52-56 drops the chain and leaves the flag
setup_qa_chain_noreset(self, store, unreadable, build) ==
  LET documents == load_documents(store, unreadable)
  IN IF documents = {}
     THEN [self EXCEPT !.qa_chain = NoChain]
     ELSE IF build
     THEN [self EXCEPT !.qa_chain = [built |-> TRUE, docs |-> documents,
                                     k |-> TopK],
                       !.has_documents = TRUE]
     ELSE [self EXCEPT !.has_documents = FALSE]

\* the branch of lines 52-56 leaves the flag and the chain as they were
setup_qa_chain_keep(self, store, unreadable, build) ==
  LET documents == load_documents(store, unreadable)
  IN IF documents = {}
     THEN self
     ELSE IF build
     THEN [self EXCEPT !.qa_chain = [built |-> TRUE, docs |-> documents,
                                     k |-> TopK],
                       !.has_documents = TRUE]
     ELSE [self EXCEPT !.has_documents = FALSE]

setup_qa_chain(self, store, unreadable, build) ==
  LET documents == load_documents(store, unreadable)
  IN IF documents = {}
     THEN [self EXCEPT !.has_documents = FALSE, !.qa_chain = NoChain]
     ELSE IF build
     THEN [self EXCEPT !.qa_chain = [built |-> TRUE, docs |-> documents,
                                     k |-> TopK],
                       !.has_documents = TRUE]
     ELSE [self EXCEPT !.has_documents = FALSE]

(***************************************************************************)
(* The globals of app.py and their constructors.                           *)
(***************************************************************************)
NoRag == [set |-> FALSE, has_documents |-> FALSE, qa_chain |-> NoChain]

NoStt == [set |-> FALSE]

NoTts == [set |-> FALSE, use_kokoro |-> FALSE, initialized |-> FALSE]

\* RAGProcessor.__init__
RAGProcessor(store, unreadable, build) ==
  setup_qa_chain([set |-> TRUE, has_documents |-> FALSE, qa_chain |-> NoChain],
                 store, unreadable, build)

\* TTSProcessor.__init__: both flags are set when Kokoro loads
TTSProcessor(kokoro) ==
  [set |-> TRUE, use_kokoro |-> kokoro, initialized |-> kokoro]

InitOutcomes == {"ollama_down", "rag_raises", "stt_raises", "ok"}

\* what the environment decides during one corpus build: the files whose
\* loader raises, among those a loader is made for, and whether the index
\* builds; build is read only when some document loads
RagEnvs(st) ==
  {e \in [unreadable : SUBSET {f \in st : f.ext \in {"pdf", "txt"}},
          build : BOOLEAN] :
     e.unreadable = {f \in st : f.ext \in {"pdf", "txt"}} => e.build}

\* what the environment decides during one initialize_processors; the
\* fields a failing run never reads are fixed
InitEnvs(st) ==
  {e \in [outcome : InitOutcomes, rag : RagEnvs(st), kokoro : BOOLEAN] :
     /\ e.outcome \in {"ollama_down", "rag_raises"} =>
          e.rag = [unreadable |-> {}, build |-> TRUE]
     /\ e.outcome # "ok" => ~e.kokoro}

\* initialize_processors: the globals are assigned one by one, so a
\* constructor that raises leaves the ones before it assigned
initialize_processors(g, st, env) ==
  CASE env.outcome = "ollama_down" -> [ok |-> FALSE, g |-> g]
    [] env.outcome = "rag_raises" -> [ok |-> FALSE, g |-> g]
    [] env.outcome = "stt_raises" ->
         [ok |-> FALSE,
          g |-> [g EXCEPT !.rag = RAGProcessor(st, env.rag.unreadable,
                                               env.rag.build)]]
    [] env.outcome = "ok" ->
         [ok |-> TRUE,
          g |-> [rag |-> RAGProcessor(st, env.rag.unreadable, env.rag.build),
                 stt |-> [set |-> TRUE],
                 tts |-> TTSProcessor(env.kokoro)]]

(***************************************************************************)
(* The lifecycle check: is_ollama_running and start_ollama of app.py, and  *)
(* start_ollama of run.py.  h is the machine: how many processes of each   *)
(* name run, and the models the daemon holds.  env is what the commands    *)
(* do: whether the scan of the process table works, whether                *)
(* Popen(ollama serve) starts a process, what `ollama list` gives,         *)
(* whether `ollama pull phi` succeeds.                                     *)
(***************************************************************************)
MaxProcs == 2       \* processes of one name the lifecycle specification starts

OllamaWord == <<"o","l","l","a","m","a">>

PhiWord == <<"p","h","i">>

ProcessNames ==
  { <<"o","l","l","a","m","a">>,
    <<"O","l","l","a","m","a">>,
    <<"p","y","t","h","o","n">> }

ModelNames ==
  { <<"p","h","i">>, <<"l","l","a","m","a","3">> }

ListOutcomes == {"listed", "nothing", "raised"}

LifeEnvs ==
  [scan : BOOLEAN, popen : BOOLEAN, list : ListOutcomes, pull : BOOLEAN]

\* app.py 27-36 and run.py 8-17: some process name contains 'ollama',
\* compared in lower case; a scan that raises is answered with False
is_ollama_running(h, env) ==
  /\ env.scan
  /\ \E n \in ProcessNames :
       h.procs[n] > 0 /\ Contains(OllamaWord, LowerText(n))

\* subprocess.Popen(["ollama", "serve"]) that starts
Popen(h) ==
  [h EXCEPT !.procs[OllamaWord] = @ + 1]

\* "phi" not in result.stdout: stdout is the list of the models held, or
\* empty when the command returned an error
StdoutHasPhi(h, env) ==
  /\ env.list = "listed"
  /\ \E m \in h.models : Contains(PhiWord, m)

\* app.py 38-66
start_ollama(h, env) ==
  IF is_ollama_running(h, env)
  THEN [ok |-> TRUE, host |-> h, calls |-> <<>>]
  ELSE IF ~env.popen
  THEN [ok |-> FALSE, host |-> h, calls |-> <<"serve">>]
  ELSE IF env.list = "raised"
  THEN [ok |-> TRUE, host |-> Popen(h), calls |-> <<"serve", "list">>]
  ELSE IF StdoutHasPhi(Popen(h), env)
  THEN [ok |-> TRUE, host |-> Popen(h), calls |-> <<"serve", "list">>]
  ELSE [ok |-> TRUE,
        host |-> IF env.pull
                 THEN [Popen(h) EXCEPT !.models = @ \cup {PhiWord}]
                 ELSE Popen(h),
        calls |-> <<"serve", "list", "pull">>]

\* run.py 19-35: the same check without the model
run_start_ollama(h, env) ==
  IF is_ollama_running(h, env)
  THEN [ok |-> TRUE, host |-> h, calls |-> <<>>]
  ELSE IF ~env.popen
  THEN [ok |-> FALSE, host |-> h, calls |-> <<"serve">>]
  ELSE [ok |-> TRUE, host |-> Popen(h), calls |-> <<"serve">>]

(***************************************************************************)
(* Messages a client can send, as receive_json returns them.  audio says   *)
(* whether the bytes the payload stands for are a readable container.      *)
(***************************************************************************)
RiffPayload == <<"U","k","l","G">>

TruncatedPayload == <<"U","k","l">>

BangPayload == <<"!","!","!","!">>

Msg(hasType, type, hasData, data, audio) ==
  [hasType |-> hasType, type |-> type, hasData |-> hasData,
   data |-> data, audio |-> audio]

ClientMessages ==
  { Msg(FALSE, "", TRUE, RiffPayload, TRUE),
    Msg(TRUE, "text", FALSE, <<>>, FALSE),
    Msg(TRUE, "audio", FALSE, <<>>, FALSE),
    Msg(TRUE, "audio", TRUE, RiffPayload, TRUE),
    Msg(TRUE, "audio", TRUE, RiffPayload, FALSE),
    Msg(TRUE, "audio", TRUE, TruncatedPayload, FALSE),
    Msg(TRUE, "audio", TRUE, BangPayload, FALSE) }

AudioMessages ==
  { Msg(TRUE, "audio", TRUE, RiffPayload, TRUE) }

NoMsg == [seq |-> 0, hasType |-> FALSE, type |-> "", hasData |-> FALSE,
          data |-> <<>>, audio |-> FALSE]

\* outcomes of the collaborators
RecognizedTexts == { <<"h","a","l","o">>, <<"H","i">> }

GeneratedTexts == { <<"o","k">>, <<>> }

WhisperOutcomes == {Raise} \cup {Ok(t) : t \in RecognizedTexts}

LlmOutcomes == {Raise} \cup {Ok(t) : t \in GeneratedTexts}

\* what the environment decides during one query of the engine self: the
\* outcome of the retriever and of the Answer Generator on each prompt;
\* the outcomes of calls the engine cannot make are fixed
QueryEnvs(self) ==
  {e \in [index : BOOLEAN, general : LlmOutcomes, grounded : LlmOutcomes,
          fallback : LlmOutcomes, similar : Retrievals(self.qa_chain)] :
     IF self.has_documents
     THEN /\ e.general = Raise
          /\ ~e.index => e.grounded = Raise
          /\ e.index /\ e.grounded.ok /\ self.qa_chain.built
               => e.fallback = Raise
     ELSE e.index /\ e.grounded = Raise /\ e.fallback = Raise}

\* what happened during one query, told from the environment alone:
\* whether the engine was grounded, whether the chain raised, whether the
\* Answer Generator raised on the fallback prompt, whether every level
\* the engine could take failed
QueryRecord(self, env) ==
  LET chainRaised == /\ self.has_documents
                     /\ \/ ~self.qa_chain.built
                        \/ ~env.index
                        \/ ~env.grounded.ok
  IN [done |-> TRUE,
      grounded |-> self.has_documents,
      chainRaised |-> chainRaised,
      fallbackRaised |-> chainRaised /\ ~env.fallback.ok,
      failed |-> IF self.has_documents
                 THEN chainRaised /\ ~env.fallback.ok
                 ELSE ~env.general.ok]

(***************************************************************************)
(* State.                                                                  *)
(***************************************************************************)
VARIABLES
  globals,      \* rag_processor, stt_processor, tts_processor of app.py
  store,        \* the files of the data folder
  running,      \* the coroutine holding the event loop, or NoTask
  pc,           \* per session: where websocket_endpoint is
  peer,         \* per session: "open", or "gone" once the server saw the close
  inbox,        \* per session: messages sent by the client, not yet received
  nsent,        \* per session: messages the client has sent
  cur,          \* per session: the message being handled
  transcript,   \* per session: local transcript
  response,     \* per session: local response
  language,     \* per session: local language
  trace,        \* per session: collaborator calls made for cur
  out,          \* per session: frames sent, each tagged with its message
  closed,       \* per session: how the connection was closed
  initTried,    \* per session: the connect ran initialize_processors
  lastQuery,    \* per session: how rag_processor.query ended for cur
  probe,        \* the last direct call of a function: arguments and result
  host          \* the process table and the model store of the machine

vars ==
  <<globals, store, running, pc, peer, inbox, nsent, cur,
    transcript, response, language, trace, out, closed, initTried,
    lastQuery, probe, host>>

\* what the direct calls and the lifecycle functions write
unitVars ==
  <<probe, host>>

sessionVars ==
  <<pc, peer, inbox, nsent, cur, transcript, response, language, trace, out,
    closed, initTried, lastQuery>>

rag_processor == globals.rag

stt_processor == globals.stt

tts_processor == globals.tts

NoQuery == [done |-> FALSE, grounded |-> FALSE, chainRaised |-> FALSE,
            fallbackRaised |-> FALSE, failed |-> FALSE]

NotClosed == [by |-> "none", code |-> 0, reason |-> ""]

SetupFailure ==
  [by |-> "server", code |-> 1011, reason |-> "Processors failed to initialize"]

ServerClose == [by |-> "server", code |-> 1000, reason |-> ""]

PeerClose == [by |-> "peer", code |-> 0, reason |-> ""]

Frame(seq, type, note) ==
  [seq |-> seq, type |-> type, note |-> note]

NoProbe == [op |-> "none"]

NoHost == [procs |-> [n \in ProcessNames |-> 0], models |-> {}]

NoGlobals == [rag |-> NoRag, stt |-> NoStt, tts |-> NoTts]

\* no connection yet
Idle ==
  /\ running = NoTask
  /\ pc = [s \in Sessions |-> "init"]
  /\ peer = [s \in Sessions |-> "open"]
  /\ inbox = [s \in Sessions |-> <<>>]
  /\ nsent = [s \in Sessions |-> 0]
  /\ cur = [s \in Sessions |-> NoMsg]
  /\ transcript = [s \in Sessions |-> <<>>]
  /\ response = [s \in Sessions |-> <<>>]
  /\ language = [s \in Sessions |-> "id"]
  /\ trace = [s \in Sessions |-> <<>>]
  /\ out = [s \in Sessions |-> <<>>]
  /\ closed = [s \in Sessions |-> NotClosed]
  /\ initTried = [s \in Sessions |-> FALSE]
  /\ lastQuery = [s \in Sessions |-> NoQuery]

\* the state at import of app.py: initialize_processors has run once.  The
\* machine is the environment of the sessions: what each lifecycle check
\* finds on it is drawn with the outcome of initialize_processors, and
\* host is written by the lifecycle specification only
InitWith(files) ==
  /\ store \in SUBSET files
  /\ \E env \in InitEnvs(store) :
       globals = initialize_processors(NoGlobals, store, env).g
  /\ Idle
  /\ probe = NoProbe
  /\ host = NoHost

(***************************************************************************)
(* websocket_endpoint.  The locals transcript, response and language are   *)
(* dead once the handler is back at receive_json and are cleared there.    *)
(***************************************************************************)
\* the test of line 122 dropped: every connect initializes
InitNeeded_always ==
  TRUE

\* line 122
InitNeeded ==
  ~rag_processor.set \/ ~stt_processor.set \/ ~tts_processor.set

\* lines 122-128: initialize if needed, then close(1011) or accept
Connect(s) ==
  /\ pc[s] = "init"
  /\ running = NoTask
  /\ \E env \in InitEnvs(store) :
       LET r == IF InitNeeded
                THEN initialize_processors(globals, store, env)
                ELSE [ok |-> TRUE, g |-> globals]
       IN /\ globals' = r.g
          /\ initTried' = [initTried EXCEPT ![s] = InitNeeded]
          /\ IF r.ok
             THEN /\ pc' = [pc EXCEPT ![s] = "recv"]
                  /\ closed' = closed
             ELSE /\ pc' = [pc EXCEPT ![s] = "closed"]
                  /\ closed' = [closed EXCEPT ![s] = SetupFailure]
  /\ UNCHANGED <<store, running, peer, inbox, nsent, cur, transcript,
                 response, language, trace, out, lastQuery>>
  /\ UNCHANGED unitVars

\* the client sends one more message on an accepted, open connection
ClientSend(s, messages, limit) ==
  /\ pc[s] \notin {"init", "closed"}
  /\ peer[s] = "open"
  /\ nsent[s] < limit
  /\ \E m \in messages :
       inbox' = [inbox EXCEPT ![s] =
                   Append(@, [seq |-> nsent[s] + 1, hasType |-> m.hasType,
                              type |-> m.type, hasData |-> m.hasData,
                              data |-> m.data, audio |-> m.audio])]
  /\ nsent' = [nsent EXCEPT ![s] = @ + 1]
  /\ UNCHANGED <<globals, store, running, pc, peer, cur, transcript,
                 response, language, trace, out, closed, initTried,
                 lastQuery>>
  /\ UNCHANGED unitVars

\* the server's transport sees the connection of s closed; this is an
\* event of the loop, so it happens while no coroutine holds the loop
Disconnect(s) ==
  /\ pc[s] \notin {"init", "closed"}
  /\ peer[s] = "open"
  /\ running = NoTask
  /\ peer' = [peer EXCEPT ![s] = "gone"]
  /\ UNCHANGED <<globals, store, running, pc, inbox, nsent, cur, transcript,
                 response, language, trace, out, closed, initTried,
                 lastQuery>>
  /\ UNCHANGED unitVars

\* send_json never raises, also on a connection that is gone
CanSend_always(s) ==
  TRUE

\* websocket.send_json succeeds on an open connection and raises otherwise
CanSend(s) ==
  peer[s] = "open"

\* the locals of the handler of s
Locals(s, t, r, l, q) ==
  /\ transcript' = [transcript EXCEPT ![s] = t]
  /\ response' = [response EXCEPT ![s] = r]
  /\ language' = [language EXCEPT ![s] = l]
  /\ lastQuery' = [lastQuery EXCEPT ![s] = q]

ClearLocals(s) ==
  Locals(s, <<>>, <<>>, "id", NoQuery)

\* the handler leaves the loop for good: WebSocketDisconnect, or another
\* exception and the websocket.close() of line 187
EndSession(s, how) ==
  /\ pc' = [pc EXCEPT ![s] = "closed"]
  /\ closed' = [closed EXCEPT ![s] = how]
  /\ running' = NoTask
  /\ ClearLocals(s)

\* the per-message except only logs: no error frame is sent
HandlerError_silent(s, m, sent, note) ==
  /\ out' = [out EXCEPT ![s] = sent]
  /\ pc' = [pc EXCEPT ![s] = "recv"]
  /\ closed' = closed
  /\ running' = NoTask
  /\ ClearLocals(s)

\* lines 176-181: the per-message except sends an error frame and the loop
\* goes back to receive_json; when that send raises too the exception
\* leaves the loop
HandlerError(s, m, sent, note) ==
  IF CanSend(s)
  THEN /\ out' = [out EXCEPT ![s] = Append(sent, Frame(m.seq, "error", note))]
       /\ pc' = [pc EXCEPT ![s] = "recv"]
       /\ closed' = closed
       /\ running' = NoTask
       /\ ClearLocals(s)
  ELSE /\ out' = [out EXCEPT ![s] = sent]
       /\ EndSession(s, PeerClose)

\* the handler goes on to next without sending the frame
SendThen_unsent(s, sent, frame, next, t, r, l, q) ==
  /\ out' = [out EXCEPT ![s] = sent]
  /\ pc' = [pc EXCEPT ![s] = next]
  /\ closed' = closed
  /\ running' = NoTask
  /\ Locals(s, t, r, l, q)

\* send one frame from inside the per-message try, then suspend at next
\* with the locals t, r, l, q
SendThen(s, sent, frame, next, t, r, l, q) ==
  IF CanSend(s)
  THEN /\ out' = [out EXCEPT ![s] = Append(sent, frame)]
       /\ pc' = [pc EXCEPT ![s] = next]
       /\ closed' = closed
       /\ running' = NoTask
       /\ Locals(s, t, r, l, q)
  ELSE /\ out' = [out EXCEPT ![s] = sent]
       /\ EndSession(s, PeerClose)

\* receive_json returns the newest message in flight
NextInbound_newest(q) ==
  q[Len(q)]

\* the message receive_json returns: the oldest one in flight
NextInbound(q) ==
  Head(q)

RestInbound(q) ==
  Tail(q)

\* lines 133-141: receive, test the type, decode, call the recognizer
Receive(s) ==
  /\ pc[s] = "recv"
  /\ running = NoTask
  /\ inbox[s] # <<>>
  /\ LET m == NextInbound(inbox[s])
     IN /\ inbox' = [inbox EXCEPT ![s] = RestInbound(@)]
        /\ cur' = [cur EXCEPT ![s] = m]
        /\ trace' = [trace EXCEPT ![s] = <<>>]
        /\ IF ~m.hasType
           THEN /\ out' = [out EXCEPT ![s] = <<>>]
                /\ EndSession(s, IF CanSend(s) THEN ServerClose ELSE PeerClose)
           ELSE IF m.type # "audio"
           THEN /\ out' = [out EXCEPT ![s] = <<>>]
                /\ ClearLocals(s)
                /\ UNCHANGED <<pc, closed, running>>
           ELSE IF ~m.hasData
           THEN HandlerError(s, m, <<>>, "KeyError")
           ELSE IF b64decode(m.data).raised
           THEN HandlerError(s, m, <<>>, "binascii.Error")
           ELSE IF ~stt_processor.set
           THEN HandlerError(s, m, <<>>, "AttributeError")
           ELSE /\ out' = [out EXCEPT ![s] = <<>>]
                /\ pc' = [pc EXCEPT ![s] = "stt"]
                /\ running' = s
                /\ closed' = closed
                /\ ClearLocals(s)
  /\ UNCHANGED <<globals, store, peer, nsent, initTried>>
  /\ UNCHANGED unitVars

\* line 133 when the connection is gone and nothing is left to read
ReceiveDisconnect(s) ==
  /\ pc[s] = "recv"
  /\ running = NoTask
  /\ inbox[s] = <<>>
  /\ peer[s] = "gone"
  /\ EndSession(s, PeerClose)
  /\ UNCHANGED <<globals, store, peer, inbox, nsent, cur, trace, out,
                 initTried>>
  /\ UNCHANGED unitVars

\* lines 141-145: the recognizer returns, the transcript frame is sent
SttReturn(s) ==
  /\ pc[s] = "stt"
  /\ running = s
  /\ \E whisper \in WhisperOutcomes :
       LET r == transcribe_audio([n |-> b64decode(cur[s].data).n,
                                  container |-> cur[s].audio], whisper)
       IN /\ trace' = [trace EXCEPT ![s] = r.calls]
          /\ IF r.raised
             THEN HandlerError(s, cur[s], out[s], "transcribe_audio")
             ELSE SendThen(s, out[s], Frame(cur[s].seq, "transcript", ""),
                           "sent_transcript",
                           r.value, <<>>, "id", NoQuery)
  /\ UNCHANGED <<globals, store, peer, inbox, nsent, cur, initTried>>
  /\ UNCHANGED unitVars

\* line 148: the handler resumes after the send and calls the engine
BeginQuery(s) ==
  /\ pc[s] = "sent_transcript"
  /\ running = NoTask
  /\ IF rag_processor.set
     THEN /\ pc' = [pc EXCEPT ![s] = "query"]
          /\ running' = s
          /\ UNCHANGED <<out, closed, transcript, response, language,
                         lastQuery>>
     ELSE HandlerError(s, cur[s], out[s], "AttributeError")
  /\ UNCHANGED <<globals, store, peer, inbox, nsent, cur, trace, initTried>>
  /\ UNCHANGED unitVars

\* lines 148-155: the engine returns, the response_text frame is sent
QueryReturn(s) ==
  /\ pc[s] = "query"
  /\ running = s
  /\ \E env \in QueryEnvs(rag_processor) :
       LET r == query(rag_processor, transcript[s],
                          [ok |-> env.index, similar |-> env.similar], env)
       IN /\ trace' = [trace EXCEPT ![s] = r.calls]
          /\ IF r.raised
             THEN HandlerError(s, cur[s], out[s], "query")
             ELSE SendThen(s, out[s], Frame(cur[s].seq, "response_text", ""),
                           "sent_text",
                           transcript[s], r.value, "id",
                           QueryRecord(rag_processor, env))
  /\ UNCHANGED <<globals, store, peer, inbox, nsent, cur, initTried>>
  /\ UNCHANGED unitVars

\* lines 157-163: the handler resumes, picks the language, calls the
\* synthesizer
BeginTts(s) ==
  /\ pc[s] = "sent_text"
  /\ running = NoTask
  /\ IF tts_processor.set
     THEN /\ pc' = [pc EXCEPT ![s] = "tts"]
          /\ running' = s
          /\ Locals(s, transcript[s], response[s],
                    select_language(transcript[s]), lastQuery[s])
          /\ UNCHANGED <<out, closed>>
     ELSE HandlerError(s, cur[s], out[s], "AttributeError")
  /\ UNCHANGED <<globals, store, peer, inbox, nsent, cur, trace, initTried>>
  /\ UNCHANGED unitVars

\* lines 163-174: the synthesizer returns, response_audio or error is
\* sent, the loop goes back to receive_json
TtsReturn(s) ==
  /\ pc[s] = "tts"
  /\ running = s
  /\ \E kokoro \in BOOLEAN, gtts \in BOOLEAN :
       LET r == synthesize_speech(tts_processor, response[s], language[s],
                                  kokoro, gtts)
       IN /\ trace' = [trace EXCEPT ![s] = r.calls]
          /\ IF r.raised
             THEN HandlerError(s, cur[s], out[s], "synthesize_speech")
             ELSE SendThen(s, out[s],
                           Frame(cur[s].seq,
                                 IF r.value > 0 THEN "response_audio"
                                 ELSE "error",
                                 IF r.value > 0 THEN "" ELSE "synthesis"),
                           "recv", <<>>, <<>>, "id", NoQuery)
  /\ UNCHANGED <<globals, store, peer, inbox, nsent, cur, initTried>>
  /\ UNCHANGED unitVars

(***************************************************************************)
(* The HTTP endpoints that change the shared state.                        *)
(***************************************************************************)
\* upload_pdf: store the file, then rag_processor.setup_qa_chain(); with
\* rag_processor None the call raises after the file is stored and the
\* response is the HTTP error 500
upload_pdf(g, st, f, env) ==
  IF g.rag.set
  THEN [status |-> 200,
        g |-> [g EXCEPT !.rag = setup_qa_chain(@, st \cup {f}, env.unreadable,
                                               env.build)],
        store |-> st \cup {f},
        calls |-> <<"write", "setup_qa_chain">>]
  ELSE [status |-> 500, g |-> g, store |-> st \cup {f},
        calls |-> <<"write">>]

\* one request to /upload; observe records the request and its response
Upload(files, observe) ==
  /\ running = NoTask
  /\ \E f \in files :
       \E env \in RagEnvs(store \cup {f}) :
         LET r == upload_pdf(globals, store, f, env)
         IN /\ store' = r.store
            /\ globals' = r.g
            /\ probe' = IF observe
                        THEN [op |-> "upload", file |-> f,
                              status |-> r.status, calls |-> r.calls,
                              unreadable |-> env.unreadable,
                              build |-> env.build,
                              before |-> globals.rag]
                        ELSE probe
  /\ UNCHANGED <<running, sessionVars, host>>

\* restart_ollama: the three globals are set to None, then
\* initialize_processors runs
RestartOllama ==
  /\ running = NoTask
  /\ \E env \in InitEnvs(store) :
       globals' = initialize_processors(NoGlobals, store, env).g
  /\ UNCHANGED <<store, running, sessionVars>>
  /\ UNCHANGED unitVars

(***************************************************************************)
(* Specifications.  Spec: one connection with every kind of message, the   *)
(* uploads and the restarts.  SpecConcurrent: two connections on the one   *)
(* event loop.                                                             *)
(***************************************************************************)
SessionStep(s, messages, limit) ==
  \/ Connect(s)
  \/ ClientSend(s, messages, limit)
  \/ Disconnect(s)
  \/ Receive(s)
  \/ ReceiveDisconnect(s)
  \/ SttReturn(s)
  \/ BeginQuery(s)
  \/ QueryReturn(s)
  \/ BeginTts(s)
  \/ TtsReturn(s)

Init ==
  InitWith(SessionFiles)

Next ==
  \/ SessionStep("s1", ClientMessages, MaxFrames)
  \/ Upload(SessionFiles, FALSE)
  \/ RestartOllama

Spec == Init /\ [][Next]_vars

InitConcurrent ==
  InitWith({})

NextConcurrent ==
  \E s \in Sessions : SessionStep(s, AudioMessages, MaxConcurrentFrames)

SpecConcurrent == InitConcurrent /\ [][NextConcurrent]_vars

(***************************************************************************)
(* SpecEngine: the Answering Engine alone.  The corpus is rebuilt by       *)
(* uploads and by direct calls of setup_qa_chain, and query is called      *)
(* directly; each call is recorded in probe with what it read and gave.    *)
(***************************************************************************)
Questions == { <<"h","a","l","o">> }

\* rag_processor.setup_qa_chain() on the store as it is
Rebuild ==
  /\ rag_processor.set
  /\ \E env \in RagEnvs(store) :
       /\ globals' = [globals EXCEPT !.rag =
                        setup_qa_chain(@, store, env.unreadable, env.build)]
       /\ probe' = [op |-> "rebuild", unreadable |-> env.unreadable,
                    build |-> env.build, before |-> globals.rag]
  /\ UNCHANGED <<store, running, sessionVars, host>>

\* rag_processor.query(question)
Query ==
  /\ rag_processor.set
  /\ \E question \in Questions, env \in QueryEnvs(rag_processor) :
       LET r == query(rag_processor, question,
                      [ok |-> env.index, similar |-> env.similar], env)
       IN probe' = [op |-> "query", question |-> question,
                    raised |-> r.raised, value |-> r.value,
                    calls |-> r.calls, prompts |-> r.prompts,
                    similar |-> env.similar]
  /\ UNCHANGED <<globals, store, running, sessionVars, host>>

\* the engine after import: the constructors that follow RAGProcessor()
\* play no part, so the import stopped before or right after it
InitEngine ==
  /\ store \in SUBSET Files
  /\ \E env \in InitEnvs(store) :
       /\ env.outcome \in {"ollama_down", "stt_raises"}
       /\ globals = initialize_processors(NoGlobals, store, env).g
  /\ Idle
  /\ probe = NoProbe
  /\ host = NoHost

NextEngine ==
  \/ Upload(Files, TRUE)
  \/ Rebuild
  \/ Query

SpecEngine == InitEngine /\ [][NextEngine]_vars

(***************************************************************************)
(* SpecUnits: the language choice of lines 157-160, synthesize_speech and  *)
(* transcribe_audio, each called directly on inputs of a bounded set.      *)
(***************************************************************************)
Transcripts ==
  { <<>>,
    <<"h","e","l","l","o">>,
    <<"H","E","L","L","O">>,
    <<"O","h"," ","H","e","L","l","O","!">>,
    <<"h","a","l","o"," ","s","e","m","u","a">>,
    <<"h","a","l","o">>,
    <<"H","i">>,
    <<"t","e","r","i","m","a"," ","k","a","s","i","h">>,
    <<"H","o","w"," ","A","r","e"," ","Y","o","u">>,
    <<"h","o","w"," ","a","r","e">>,
    <<"b","a","h","a","s","a"," ","I","n","g","g","r","i","s">>,
    <<"E","n","g","l","i","s","h">>,
    <<"h","e","l","o">>,
    SttPlaceholder }

SpokenTexts ==
  { <<>>, <<" ">>, <<" ", "\t", "\n">>, <<"o","k">>, <<" ","a"," ">>,
    <<"h","e","l","l","o">> }

Languages == {"id", "en"}

\* lines 157-160 for one frame: response is the answer text of the frame,
\* earlier the language chosen for the frame before it
SelectLanguage ==
  /\ \E t \in Transcripts, r \in SpokenTexts, earlier \in Languages :
       probe' = [op |-> "select_language", transcript |-> t,
                 response |-> r, earlier |-> earlier,
                 language |-> select_language(t)]
  /\ UNCHANGED <<globals, store, running, sessionVars, host>>

\* tts_processor.synthesize_speech(text, language)
Synthesize ==
  /\ \E self \in {TTSProcessor(k) : k \in BOOLEAN}, text \in SpokenTexts,
        lang \in Languages, kokoro \in BOOLEAN, gtts \in BOOLEAN :
       LET r == synthesize_speech(self, text, lang, kokoro, gtts)
       IN probe' = [op |-> "synthesize_speech", self |-> self,
                    text |-> text, language |-> lang,
                    kokoro |-> kokoro, gtts |-> gtts,
                    raised |-> r.raised, value |-> r.value,
                    calls |-> r.calls]
  /\ UNCHANGED <<globals, store, running, sessionVars, host>>

\* stt_processor.transcribe_audio(audio_data)
Transcribe ==
  /\ \E n \in {0, 3}, container \in BOOLEAN, whisper \in WhisperOutcomes :
       LET r == transcribe_audio([n |-> n, container |-> container], whisper)
       IN probe' = [op |-> "transcribe_audio", n |-> n,
                    container |-> container, whisper |-> whisper,
                    raised |-> r.raised, value |-> r.value,
                    calls |-> r.calls]
  /\ UNCHANGED <<globals, store, running, sessionVars, host>>

InitUnits ==
  /\ store = {}
  /\ globals = NoGlobals
  /\ Idle
  /\ probe = NoProbe
  /\ host = NoHost

NextUnits ==
  \/ SelectLanguage
  \/ Synthesize
  \/ Transcribe

SpecUnits == InitUnits /\ [][NextUnits]_vars

(***************************************************************************)
(* SpecLifecycle: the lifecycle check called again and again on a machine  *)
(* whose processes may end at any time.                                    *)
(***************************************************************************)
Hosts ==
  [procs : [ProcessNames -> {0, 1}], models : SUBSET ModelNames]

\* start_ollama of app.py
StartOllama ==
  /\ host.procs[OllamaWord] < MaxProcs
  /\ \E env \in LifeEnvs :
       LET r == start_ollama(host, env)
       IN /\ host' = r.host
          /\ probe' = [op |-> "start_ollama", before |-> host,
                       scan |-> env.scan, ok |-> r.ok, calls |-> r.calls]
  /\ UNCHANGED <<globals, store, running, sessionVars>>

\* start_ollama of run.py
RunStartOllama ==
  /\ host.procs[OllamaWord] < MaxProcs
  /\ \E env \in LifeEnvs :
       LET r == run_start_ollama(host, env)
       IN /\ host' = r.host
          /\ probe' = [op |-> "run_start_ollama", before |-> host,
                       scan |-> env.scan, ok |-> r.ok, calls |-> r.calls]
  /\ UNCHANGED <<globals, store, running, sessionVars>>

\* a process of the machine ends
ProcessExits ==
  /\ \E n \in ProcessNames :
       /\ host.procs[n] > 0
       /\ host' = [host EXCEPT !.procs[n] = @ - 1]
  /\ probe' = NoProbe
  /\ UNCHANGED <<globals, store, running, sessionVars>>

InitLifecycle ==
  /\ store = {}
  /\ globals = NoGlobals
  /\ Idle
  /\ probe = NoProbe
  /\ host \in Hosts

NextLifecycle ==
  \/ StartOllama
  \/ RunStartOllama
  \/ ProcessExits

SpecLifecycle == InitLifecycle /\ [][NextLifecycle]_vars

(***************************************************************************)
(* Properties.                                                             *)
(***************************************************************************)
\* the types of the frames sent for the current message of s
Types(s) ==
  [i \in 1..Len(out[s]) |-> out[s][i].type]

\* the current message of s is an audio frame
IsAudio(s) ==
  cur[s].seq > 0 /\ cur[s].hasType /\ cur[s].type = "audio"

\* the audio frame of s is handled and the loop is back at receive_json
FrameDone(s) ==
  IsAudio(s) /\ pc[s] = "recv"

FullSequences ==
  { <<"transcript", "response_text", "response_audio">>,
    <<"transcript", "response_text", "error">> }

CompleteSequences ==
  FullSequences \cup { <<"error">>, <<"transcript", "error">> }

PartialSequences ==
  { <<>>, <<"transcript">>, <<"transcript", "response_text">> }

\* C1, as claimed: every audio frame handled to the end got transcript,
\* response_text and then exactly one of response_audio or error.
C1_FullSequenceAlways ==
  \A s \in Sessions : FrameDone(s) => Types(s) \in FullSequences

\* C1, amended: the frames sent for one audio frame are, in order, at most
\* one transcript, at most one response_text after it, and exactly one
\* closing frame: response_audio after both, or error at any point.  A
\* frame that fails before the recognizer is called gets the single error
\* frame; a connection that fails leaves a prefix.
C1_FrameSequence ==
  \A s \in Sessions : IsAudio(s) =>
    /\ pc[s] = "stt" => Types(s) = <<>>
    /\ pc[s] \in {"sent_transcript", "query"} => Types(s) = <<"transcript">>
    /\ pc[s] \in {"sent_text", "tts"} =>
         Types(s) = <<"transcript", "response_text">>
    /\ pc[s] = "recv" => Types(s) \in CompleteSequences
    /\ pc[s] = "closed" => Types(s) \in CompleteSequences \cup PartialSequences
    /\ pc[s] = "recv" /\ (~cur[s].hasData \/ b64decode(cur[s].data).raised)
         => Types(s) = <<"error">>

C1_Witness ==
  \E s \in Sessions :
    /\ FrameDone(s)
    /\ Types(s) = <<"transcript", "response_text", "response_audio">>

\* C2, as claimed: an audio frame whose data is malformed base64 gets
\* exactly one error frame and nothing else, and the session stays open.
C2_MalformedOneError ==
  \A s \in Sessions :
    (IsAudio(s) /\ cur[s].hasData /\ ~WellFormedB64(cur[s].data)
       /\ peer[s] = "open")
    => pc[s] = "recv" /\ Types(s) = <<"error">>

JunkAudio(s) ==
  /\ IsAudio(s)
  /\ cur[s].hasData
  /\ WellFormedB64(cur[s].data)
  /\ ~cur[s].audio

C4_OnlyConnectionFailureEnds ==
  \A s \in Sessions :
    pc[s] = "closed" /\ closed[s] # SetupFailure => peer[s] = "gone"

\* some shared processor is None
SomeProcessorMissing ==
  ~globals.rag.set \/ ~globals.stt.set \/ ~globals.tts.set

\* C5: a connect runs initialize_processors exactly when a processor is
\* None; when it fails the session is closed with code 1011 and a reason,
\* is never accepted, receives no message and sends no frame, and stays
\* closed.
C5_SetupFailure ==
  /\ [](\A s \in Sessions :
          closed[s].code = 1011 =>
            /\ closed[s] = SetupFailure
            /\ closed[s].reason # ""
            /\ pc[s] = "closed"
            /\ initTried[s]
            /\ cur[s] = NoMsg /\ inbox[s] = <<>> /\ nsent[s] = 0
            /\ out[s] = <<>>)
  /\ [][\A s \in Sessions :
          /\ pc[s] = "init" /\ pc'[s] # "init" =>
               /\ initTried'[s] <=> SomeProcessorMissing
               /\ ~SomeProcessorMissing => globals' = globals
               /\ pc'[s] = "closed" <=> SomeProcessorMissing'
               /\ pc'[s] = "closed" => closed'[s] = SetupFailure
               /\ pc'[s] # "closed" => pc'[s] = "recv"
          /\ pc[s] = "closed" => pc'[s] = "closed" /\ closed'[s] = closed[s]
       ]_vars

C5_Witness ==
  \E s \in Sessions :
    closed[s] = SetupFailure /\ initTried[s] /\ SomeProcessorMissing

\* the message before the current one of s is handled to the end
PreviousDone(s) ==
  \/ ~IsAudio(s)
  \/ Types(s) \in CompleteSequences

\* C6: a session receives its messages in arrival order, one at a time: it
\* receives message n+1 only at receive_json, after the closing frame of
\* message n, and every frame it sends belongs to the message it handles.
C6_InOrder ==
  /\ [][\A s \in Sessions :
          cur'[s] # cur[s] =>
            /\ cur'[s].seq = cur[s].seq + 1
            /\ pc[s] = "recv"
            /\ PreviousDone(s)
            /\ inbox[s] # <<>> /\ cur'[s] = inbox[s][1]
       ]_vars
  /\ [](\A s \in Sessions :
          \A i \in 1..Len(out[s]) : out[s][i].seq = cur[s].seq)

C6_Witness ==
  \E s \in Sessions :
    /\ cur[s].seq = 2
    /\ Types(s) \in FullSequences
    /\ pc[s] = "recv"

\* C7, as claimed: while a session is inside a call of the recognizer, the
\* engine or the synthesizer, every other session with a message waiting
\* can receive it.
C7_SessionsIndependent ==
  \A s \in Sessions, t \in Sessions :
    (s # t /\ pc[s] \in {"stt", "query", "tts"}
       /\ pc[t] = "recv" /\ inbox[t] # <<>>)
    => ENABLED Receive(t)

\* C8, as claimed: once the server saw the disconnect of a session, the
\* step in flight is aborted: the session starts no collaborator call.
C8_AbortedAtDisconnect ==
  [][\A s \in Sessions :
       peer[s] = "gone" /\ pc'[s] # pc[s] =>
         pc'[s] \notin {"stt", "query", "tts"}
    ]_vars

\* C8, amended: after the server saw the disconnect the handler is not
\* aborted at once: it may still start and finish collaborator calls, but
\* it sends no frame, the first send it attempts fails and ends the
\* session in Disconnected, the calls are not repeated, and the shared
\* processors and the corpus are left as they are.
C8_DisconnectInFlight ==
  [][\A s \in Sessions :
       peer[s] = "gone" =>
         /\ Len(out'[s]) <= Len(out[s])
         /\ pc[s] \in {"stt", "query", "tts"} /\ pc'[s] # pc[s] =>
              pc'[s] = "closed" /\ closed'[s] = PeerClose
         /\ pc[s] = "sent_transcript" /\ pc'[s] # pc[s] =>
              pc'[s] \in {"query", "closed"}
         /\ pc[s] = "sent_text" /\ pc'[s] # pc[s] =>
              pc'[s] \in {"tts", "closed"}
         /\ pc[s] = "closed" => pc'[s] = "closed"
         /\ (pc'[s] # pc[s] \/ cur'[s] # cur[s]) =>
              globals' = globals /\ store' = store
    ]_vars

C8_Witness ==
  \E s \in Sessions :
    /\ peer[s] = "gone"
    /\ pc[s] = "closed"
    /\ closed[s] = PeerClose
    /\ IsAudio(s)
    /\ Types(s) = <<"transcript">>
    /\ trace[s] # <<>> /\ trace[s][1] \in {"llm_general", "qa_chain"}

AnswerTexts ==
  GeneratedTexts \cup {GeneralApology, FallbackApology}

\* C9: query never raises: whatever the engine state and the failures of
\* the index and the Answer Generator, the call returns a text, which the
\* session sends in a response_text frame; when every level failed the
\* text is a fixed apology.
C9_QueryNeverRaises ==
  [][\A s \in Sessions :
       pc[s] = "query" /\ pc'[s] # "query" =>
         /\ pc'[s] \in {"sent_text", "closed"}
         /\ peer[s] = "open" =>
              /\ pc'[s] = "sent_text"
              /\ Types(s)' = <<"transcript", "response_text">>
              /\ response'[s] \in AnswerTexts
              /\ lastQuery'[s].done
              /\ lastQuery'[s].failed =>
                   response'[s] \in {GeneralApology, FallbackApology}
    ]_vars

C9_Witness ==
  \E s \in Sessions :
    /\ pc[s] = "sent_text"
    /\ lastQuery[s].failed
    /\ response[s] = FallbackApology
    /\ Types(s) = <<"transcript", "response_text">>

\* the number of entries of the call sequence c that are in the set names
Count(c, names) ==
  Cardinality({i \in 1..Len(c) : c[i] \in names})

\* C10: a query of a grounded engine calls the chain once; it sends the
\* fallback prompt, once, exactly when the chain raised, and returns the
\* fixed apology exactly when that raised too; at most two calls of the
\* Answer Generator are made.
C10_TwoLevelFallback ==
  \A s \in Sessions :
    pc[s] = "sent_text" /\ lastQuery[s].grounded =>
      /\ Count(trace[s], {"qa_chain"}) = 1
      /\ trace[s][1] = "qa_chain"
      /\ Count(trace[s], {"llm_general"}) = 0
      /\ Count(trace[s], {"llm_grounded"}) <= 1
      /\ Count(trace[s], {"llm_fallback"}) =
           (IF lastQuery[s].chainRaised THEN 1 ELSE 0)
      /\ Count(trace[s], {"llm_grounded", "llm_fallback"}) <= 2
      /\ response[s] = FallbackApology <=> lastQuery[s].fallbackRaised

C10_Witness ==
  \E s \in Sessions :
    /\ pc[s] = "sent_text"
    /\ lastQuery[s].grounded
    /\ trace[s] = <<"qa_chain", "index", "llm_grounded", "llm_fallback">>
    /\ response[s] = FallbackApology

\* the recognized files of st whose loader does not raise
UsableFiles(st, unreadable) ==
  {f \in st : (f.ext = "pdf" \/ f.ext = "txt") /\ f \notin unreadable}

\* the smaller of two numbers
Min(a, b) ==
  IF a < b THEN a ELSE b

\* probe is a corpus rebuild that ran to its end: a direct call of
\* setup_qa_chain, or an upload answered with 200
RebuildDone ==
  \/ probe.op = "rebuild"
  \/ probe.op = "upload" /\ probe.status = 200

\* C11, as claimed: the path of query follows the grounding flag alone.
\* Without a corpus the question goes in the general prompt straight to the
\* Answer Generator, the Document Index is not consulted and the text
\* returned is not empty; with a corpus the chain retrieves the 3 most
\* similar chunks (all of them when fewer are indexed) and those chunks are
\* the context of the prompt sent to the Answer Generator.
C11_PathByGroundingFlag ==
  probe.op = "query" =>
    IF ~rag_processor.has_documents
    THEN /\ probe.calls = <<"llm_general">>
         /\ probe.prompts = <<Prompt("general", {}, probe.question)>>
         /\ probe.value # <<>>
    ELSE /\ Len(probe.calls) >= 2
         /\ probe.calls[1] = "qa_chain" /\ probe.calls[2] = "index"
         /\ Count(probe.calls, {"llm_general"}) = 0
         /\ Count(probe.calls, {"llm_grounded"}) = 1 =>
              /\ probe.prompts[1].template = "grounded"
              /\ probe.prompts[1].context = probe.similar
              /\ probe.prompts[1].context \subseteq rag_processor.qa_chain.docs
              /\ Cardinality(probe.prompts[1].context) =
                   Min(3, Cardinality(rag_processor.qa_chain.docs))

\* C12: a rebuild that finds no usable document ends without error and
\* leaves the engine ungrounded, whatever it was before; the grounding
\* flag changes in a rebuild only, and every query of an ungrounded engine
\* takes the no-corpus path.
C12_ZeroDocumentsUngrounded ==
  /\ [](/\ RebuildDone /\ UsableFiles(store, probe.unreadable) = {} =>
             /\ rag_processor.set
             /\ ~rag_processor.has_documents
        /\ probe.op = "upload" /\ probe.before.set
             /\ UsableFiles(store, probe.unreadable) = {} =>
             probe.status = 200
        /\ probe.op = "query" /\ ~rag_processor.has_documents =>
             /\ ~probe.raised
             /\ probe.calls = <<"llm_general">>)
  /\ [][rag_processor'.has_documents # rag_processor.has_documents =>
          probe'.op \in {"rebuild", "upload"}]_vars

C12_Witness ==
  /\ probe.op = "rebuild"
  /\ probe.before.has_documents
  /\ store # {}
  /\ UsableFiles(store, probe.unreadable) = {}
  /\ ~rag_processor.has_documents

\* the store holds a file whose loader raises and a plain text file that
\* loads
OneUnreadableOneValid ==
  /\ \E f \in store : f \in probe.unreadable
  /\ \E f \in store : f.ext = "txt" /\ f \notin probe.unreadable

C14_UploadRebuildsAll ==
  probe.op = "upload" /\ probe.status = 200 =>
    /\ probe.file \in store
    /\ probe.calls = <<"write", "setup_qa_chain">>
    /\ rag_processor.has_documents <=>
         UsableFiles(store, probe.unreadable) # {}
    /\ rag_processor.has_documents =>
         rag_processor.qa_chain.docs = UsableFiles(store, probe.unreadable)

\* the character c is the lower-case letter l in either case
SameLetter(c, l) ==
  \/ c = l
  \/ \E j \in 1..26 : UpperCase[j] = c /\ LowerCase[j] = l

MarkerWords ==
  { <<"e","n","g","l","i","s","h">>,
    <<"i","n","g","g","r","i","s">>,
    <<"h","e","l","l","o">>,
    <<"h","i">>,
    <<"h","o","w"," ","a","r","e"," ","y","o","u">> }

\* some marker word occurs in t, letters compared without case
HasMarker(t) ==
  \E w \in MarkerWords :
    \E k \in 0..(Len(t) - Len(w)) :
      \A i \in 1..Len(w) : SameLetter(t[k + i], w[i])

HelloCasings ==
  { <<"h","e","l","l","o">>,
    <<"H","E","L","L","O">>,
    <<"O","h"," ","H","e","L","l","O","!">> }

\* C15: the synthesis language of a frame is "en" exactly when its
\* transcript holds one of the marker words in any casing and "id"
\* otherwise, whatever the answer text and the language of the frame
\* before; every casing of hello gives "en" and "halo semua" gives "id".
C15_LanguageFromTranscript ==
  probe.op = "select_language" =>
    /\ probe.language = (IF HasMarker(probe.transcript) THEN "en" ELSE "id")
    /\ probe.transcript \in HelloCasings => probe.language = "en"
    /\ probe.transcript = <<"h","a","l","o"," ","s","e","m","u","a">> =>
         probe.language = "id"

C15_Witness ==
  /\ probe.op = "select_language"
  /\ probe.transcript = <<"O","h"," ","H","e","L","l","O","!">>
  /\ probe.earlier = "id"
  /\ probe.response = <<"h","e","l","l","o">>
  /\ probe.language = "en"

BlankTexts ==
  { <<>>, <<" ">>, <<" ", "\t", "\n">> }

\* C16: synthesize_speech on the empty string or on text of whitespace
\* only returns no bytes and calls neither Kokoro nor gTTS.
C16_EmptyTextNoEngine ==
  probe.op = "synthesize_speech" /\ probe.text \in BlankTexts =>
    /\ ~probe.raised
    /\ probe.value = 0
    /\ probe.calls = <<>>

C16_Witness ==
  /\ probe.op = "synthesize_speech"
  /\ probe.text = <<" ", "\t", "\n">>
  /\ probe.self.use_kokoro /\ probe.kokoro /\ probe.gtts
  /\ probe.value = 0
  /\ probe.calls = <<>>

\* a daemon process runs on the machine h, under either spelling
DaemonRuns(h) ==
  h.procs[<<"o","l","l","a","m","a">>] + h.procs[<<"O","l","l","a","m","a">>]
    > 0

\* the model phi is held locally on the machine h
ModelPresent(h) ==
  <<"p","h","i">> \in h.models

\* probe is a call of the lifecycle check
LifecycleCall(p) ==
  p.op \in {"start_ollama", "run_start_ollama"}

\* C17, as claimed: whenever start_ollama of app.py reports success the
\* daemon runs and the model phi is present, pulled when it was absent,
\* whether the daemon had to be started or ran already.
C17_SuccessMeansReady ==
  probe.op = "start_ollama" /\ probe.ok =>
    /\ DaemonRuns(host)
    /\ ModelPresent(host)
    /\ ~ModelPresent(probe.before) => Count(probe.calls, {"pull"}) = 1

\* C18, as claimed: the lifecycle check is idempotent: called while a
\* daemon runs it starts no process, changes nothing and reports success,
\* and a call that follows a successful call changes nothing and reports
\* success again.
C18_Idempotent ==
  /\ [](LifecycleCall(probe) /\ DaemonRuns(probe.before) =>
          /\ probe.ok
          /\ host = probe.before
          /\ Count(probe.calls, {"serve"}) = 0)
  /\ [][LifecycleCall(probe) /\ probe.ok /\ LifecycleCall(probe') =>
          host' = host /\ probe'.ok /\ probe'.calls = <<>>]_vars

\* C19: for one audio frame the transcript frame is sent before the
\* engine is called and the response_text frame before the synthesizer is
\* called: while a query runs the transcript frame was sent, while a
\* synthesis runs the response_text frame was sent too, and each call
\* starts from the state that follows its send, with nothing sent between.
C19_SendBeforeInvoke ==
  /\ [](\A s \in Sessions :
          /\ pc[s] = "query" =>
               IsAudio(s) /\ Types(s) = <<"transcript">>
          /\ pc[s] = "tts" =>
               IsAudio(s) /\ Types(s) = <<"transcript", "response_text">>
          /\ Count(trace[s], {"qa_chain", "llm_general"}) > 0 =>
               Len(out[s]) >= 1 /\ out[s][1].type = "transcript"
          /\ Count(trace[s], {"kokoro", "gtts"}) > 0 =>
               Len(out[s]) >= 2 /\ out[s][2].type = "response_text")
  /\ [][\A s \in Sessions :
          /\ pc'[s] = "query" /\ pc[s] # "query" =>
               /\ pc[s] = "sent_transcript"
               /\ out[s][Len(out[s])].type = "transcript"
               /\ out'[s] = out[s]
          /\ pc'[s] = "tts" /\ pc[s] # "tts" =>
               /\ pc[s] = "sent_text"
               /\ out[s][Len(out[s])].type = "response_text"
               /\ out'[s] = out[s]
       ]_vars

C19_Witness ==
  \E s \in Sessions :
    /\ pc[s] = "tts"
    /\ peer[s] = "open"
    /\ Types(s) = <<"transcript", "response_text">>
    /\ Count(trace[s], {"qa_chain", "llm_general"}) > 0

\* the call sequence c of transcribe_audio went through its except handler
RecognitionFailed(c) ==
  Count(c, {"except"}) > 0

\* C20: transcribe_audio never raises: a step out of the recognizer sends
\* no error frame; on an open connection it sends the transcript frame,
\* with the fixed placeholder as transcript when recognition failed, and
\* the handler goes on as for any transcript: it queries the engine with
\* that transcript and carries it to the choice of language and synthesis.
C20_TranscribeNeverRaises ==
  [][\A s \in Sessions :
       /\ pc[s] = "stt" /\ pc'[s] # "stt" =>
            /\ pc'[s] \in {"sent_transcript", "closed"}
            /\ \A i \in 1..Len(out'[s]) : out'[s][i].type # "error"
            /\ peer[s] = "open" =>
                 /\ pc'[s] = "sent_transcript"
                 /\ Types(s)' = <<"transcript">>
                 /\ transcript'[s] \in RecognizedTexts \cup {SttPlaceholder}
                 /\ RecognitionFailed(trace'[s]) <=>
                      transcript'[s] = SttPlaceholder
            /\ peer[s] = "gone" => closed'[s] = PeerClose
       /\ pc[s] = "sent_transcript" /\ pc'[s] # pc[s] /\ rag_processor.set =>
            pc'[s] = "query" /\ transcript'[s] = transcript[s]
       /\ pc[s] = "query" /\ pc'[s] = "sent_text" =>
            transcript'[s] = transcript[s]
       /\ pc[s] = "sent_text" /\ pc'[s] # pc[s] /\ tts_processor.set =>
            pc'[s] = "tts" /\ transcript'[s] = transcript[s]
    ]_vars

C20_Witness ==
  \E s \in Sessions :
    /\ pc[s] = "tts"
    /\ cur[s].audio
    /\ transcript[s] = SttPlaceholder
    /\ Types(s) = <<"transcript", "response_text">>

\* the call sequence c of synthesize_speech ended in audio: an engine was
\* entered and the last one entered did not go through its except handler
AudioProduced(c) ==
  c # <<>> /\ c[Len(c)] # "except"

\* the fallback engine was entered in c after the primary was skipped or
\* raised, never after a primary that produced audio
FallbackChain(c, tts) ==
  /\ Count(c, {"kokoro"}) <= 1
  /\ Count(c, {"gtts"}) <= 1
  /\ Count(c, {"kokoro"}) = 1 <=> (tts.use_kokoro /\ tts.initialized)
  /\ Count(c, {"gtts"}) = 1 <=>
       \/ ~(tts.use_kokoro /\ tts.initialized)
       \/ (Len(c) >= 2 /\ c[1] = "kokoro" /\ c[2] = "except")

\* C21: synthesize_speech never raises and runs the chain Kokoro, then
\* gTTS: on text that is not blank each engine is entered at most once,
\* gTTS exactly when Kokoro is not configured or raised, and no audio comes
\* back only for blank text or when gTTS failed.  On an open connection
\* the step out of the synthesizer sends response_audio exactly when audio
\* came back and the synthesis-failure error frame otherwise, and the
\* session waits for the next frame.
C21_SynthesisFallbackChain ==
  [][\A s \in Sessions :
       pc[s] = "tts" /\ pc'[s] # "tts" =>
         /\ pc'[s] \in {"recv", "closed"}
         /\ IF response[s] \in BlankTexts
            THEN trace'[s] = <<>>
            ELSE FallbackChain(trace'[s], tts_processor)
         /\ ~AudioProduced(trace'[s]) =>
              \/ response[s] \in BlankTexts
              \/ /\ Count(trace'[s], {"gtts"}) = 1
                 /\ trace'[s][Len(trace'[s])] = "except"
         /\ peer[s] = "open" =>
              /\ pc'[s] = "recv"
              /\ Types(s)' = <<"transcript", "response_text",
                               IF AudioProduced(trace'[s])
                               THEN "response_audio" ELSE "error">>
              /\ ~AudioProduced(trace'[s]) =>
                   out'[s][3].note = "synthesis"
         /\ peer[s] = "gone" => closed'[s] = PeerClose /\ out'[s] = out[s]
    ]_vars

C21_Witness ==
  \E s \in Sessions :
    /\ pc[s] = "recv"
    /\ peer[s] = "open"
    /\ trace[s] = <<"kokoro", "except", "gtts", "except">>
    /\ Types(s) = <<"transcript", "response_text", "error">>
    /\ out[s][3].note = "synthesis"

\* C22: the grounding flag is set only on an engine that holds a chain:
\* whenever has_documents is true, qa_chain is a chain (never None) over a
\* non-empty set of documents; the flag becomes or stays true across a
\* rebuild only when that rebuild built its index, and the chain is then
\* the one over the files that rebuild loaded; a rebuild whose build fails
\* or that finds no document leaves the flag false, and a query changes
\* neither the flag nor the chain.
C22_GroundedHasChain ==
  /\ [](rag_processor.has_documents =>
          /\ rag_processor.set
          /\ rag_processor.qa_chain # NoChain
          /\ rag_processor.qa_chain.built
          /\ rag_processor.qa_chain.docs # {})
  /\ [][/\ rag_processor'.has_documents /\ rag_processor' # rag_processor =>
            /\ probe'.op \in {"rebuild", "upload"}
            /\ probe'.build
            /\ rag_processor'.qa_chain.docs =
                 UsableFiles(store', probe'.unreadable)
        /\ RebuildDone' /\ probe' # probe /\ rag_processor'.has_documents =>
            probe'.build /\ UsableFiles(store', probe'.unreadable) # {}
        /\ probe'.op = "query" => rag_processor' = rag_processor
       ]_vars

C22_Witness ==
  /\ probe.op = "rebuild"
  /\ probe.build
  /\ ~probe.before.has_documents
  /\ probe.before.qa_chain.built
  /\ rag_processor.has_documents
  /\ rag_processor.qa_chain.docs = UsableFiles(store, probe.unreadable)
  /\ rag_processor.qa_chain # probe.before.qa_chain

\* the three shared processors are set
AllProcessors ==
  rag_processor.set /\ stt_processor.set /\ tts_processor.set

\* C23, as claimed: whenever an accepted session processes an audio
\* frame, the recognizer, the engine and the synthesizer are all
\* initialized: they are when the handler takes an audio frame with a
\* decodable payload from the connection, and they stay so while the frame
\* is in flight, whatever restarts and initializations run between the
\* steps of the handler.
C23_ProcessorsInitialized ==
  /\ [](\A s \in Sessions :
          pc[s] \in {"stt", "sent_transcript", "query", "sent_text", "tts"}
            => AllProcessors)
  /\ [][\A s \in Sessions :
          (/\ pc[s] = "recv"
           /\ Len(inbox'[s]) < Len(inbox[s])
           /\ IsAudio(s)'
           /\ cur'[s].hasData
           /\ ~b64decode(cur'[s].data).raised)
          => AllProcessors
       ]_vars

====
